---- MODULE Spec2Model ----
(***************************************************************************)
(* A model of kepler.gl's file ingestion pipeline                          *)
(* (src/src/processors/file-handler.js): readFile and its two ingestors    *)
(* loadCsv and loadJSON, the file-name sniffer getFileType, the JSON       *)
(* classification predicates, and the batch reassembly loop of             *)
(* parseFileInBatches.                                                     *)
(*                                                                         *)
(* JavaScript values are modelled as tagged records:                       *)
(*   [t |-> "undefined"], [t |-> "null"], [t |-> "num", n |-> 1],          *)
(*   [t |-> "str", s |-> "x"], [t |-> "obj", o |-> props],                 *)
(*   [t |-> "arr", a |-> elements, o |-> props]                            *)
(* where props is a function from property names to values.  An array      *)
(* carries props too, because parseFileInBatches assigns named properties  *)
(* to an array object.  Strings the code inspects character by character   *)
(* (file names) are sequences of one-character strings.                    *)
(***************************************************************************)
EXTENDS Integers, Sequences, FiniteSets, TLC

----------------------------------------------------------------------------
(* Bounds of the model *)

\* longest element list of a streamed array / top-level array
MaxElems == 2
\* longest input cache handed to readFile
MaxCache == 1
\* longest prefix put in front of a file-name suffix
MaxPrefix == 2
\* most Data batches the incremental parser emits for one document
MaxBatches == 3

----------------------------------------------------------------------------
(* JavaScript values *)

Undefined == [t |-> "undefined"]
Null == [t |-> "null"]
Num(n) == [t |-> "num", n |-> n]
Str(s) == [t |-> "str", s |-> s]
NoProps == [k \in {} |-> Null]
Obj(o) == [t |-> "obj", o |-> o]
Arr(a) == [t |-> "arr", a |-> a, o |-> NoProps]
Bool(b) == [t |-> "bool", b |-> b]

\* JavaScript truthiness (ToBoolean): undefined, null, false, 0 and "" are
\* falsy
Truthy(j) ==
  /\ j.t \notin {"undefined", "null"}
  /\ ~(j.t = "bool" /\ ~j.b)
  /\ ~(j.t = "num" /\ j.n = 0)
  /\ ~(j.t = "str" /\ j.s = "")

\* property read j.k (j is never null or undefined where the code reads)
Get(j, k) ==
  IF j.t \in {"obj", "arr"} /\ k \in DOMAIN j.o THEN j.o[k] ELSE Undefined

\* element read j[0]
First(j) ==
  IF j.t = "arr" /\ Len(j.a) > 0 THEN j.a[1] ELSE Undefined

\* property write j[k] = v on an object or an array
SetProp(j, k, v) ==
  [j EXCEPT !.o = [x \in DOMAIN j.o \cup {k} |-> IF x = k THEN v ELSE j.o[x]]]

\* utils/utils isPlainObject: a non-null, non-array object
isPlainObject(j) == j.t = "obj"

isArray(j) == j.t = "arr"

----------------------------------------------------------------------------
(* getFileType / getFileHandler *)

EndsWith(s, suffix) ==
  /\ Len(suffix) <= Len(s)
  /\ SubSeq(s, Len(s) - Len(suffix) + 1, Len(s)) = suffix

csvSuffix == <<"c", "s", "v">>
jsonSuffix == <<"j", "s", "o", "n">>
geojsonSuffix == <<"g", "e", "o", "j", "s", "o", "n">>

getFileType(filename) ==
  IF EndsWith(filename, csvSuffix) THEN "csv"
  ELSE IF EndsWith(filename, jsonSuffix) \/ EndsWith(filename, geojsonSuffix)
       THEN "json"
  ELSE "other"

FILE_HANDLERS == [csv |-> "loadCsv", json |-> "loadJSON"]

getFileHandler(fileBlob) ==
  LET type == getFileType(fileBlob.name) IN
  [handler |-> IF type \in DOMAIN FILE_HANDLERS THEN FILE_HANDLERS[type]
               ELSE "undefined",
   format |-> type]

----------------------------------------------------------------------------
(* JSON classification *)

DATASET_FORMATS ==
  [row |-> "row", geojson |-> "geojson", csv |-> "csv", keplergl |-> "keplergl"]

isFeature(json) ==
  Get(json, "type") = Str("Feature") /\ Truthy(Get(json, "geometry"))

isFeatureCollection(json) ==
  Get(json, "type") = Str("FeatureCollection") /\ Truthy(Get(json, "features"))

isGeoJson(json) ==
  isPlainObject(json) /\ (isFeature(json) \/ isFeatureCollection(json))

isRowObject(json) == isArray(json) /\ isPlainObject(First(json))

\* mutant of isKeplerGlMap: the test of json.config is missing
isKeplerGlMap_NoConfig(json) ==
  /\ isPlainObject(json)
  /\ Truthy(Get(json, "datasets"))
  /\ Truthy(Get(json, "info"))
  /\ Get(Get(json, "info"), "app") = Str("kepler.gl")

isKeplerGlMap(json) ==
  /\ isPlainObject(json)
  /\ Truthy(Get(json, "datasets"))
  /\ Truthy(Get(json, "config"))
  /\ Truthy(Get(json, "info"))
  /\ Get(Get(json, "info"), "app") = Str("kepler.gl")

\* the properties of a processor's output that this program reads:
\* processKeplerglJSON yields {datasets, config, info} of the saved map
ProcessedProps(processor, input) ==
  IF processor = "processKeplerglJSON"
  THEN [datasets |-> Get(input, "datasets"), config |-> Get(input, "config"),
        info |-> Get(input, "info")]
  ELSE NoProps

\* The data processors are external: a processor either yields a truthy
\* object that records which processor saw which input, or yields nothing.
Processed(processor, input, yields) ==
  IF yields
  THEN [t |-> "obj", o |-> ProcessedProps(processor, input),
        proc |-> processor, arg |-> input]
  ELSE Null

\* the object an ingestor resolves with: {format, data}
IngestResult(format, data) == [t |-> "obj", format |-> format, data |-> data]

\* the continuation of loadJSON (lines 102-122): result and warnings emitted
loadJSONThen(content, yields) ==
  IF isKeplerGlMap(content)
  THEN [result |-> IngestResult(DATASET_FORMATS.keplergl,
                                Processed("processKeplerglJSON", content, yields)),
        warn |-> 0]
  ELSE IF isRowObject(content)
  THEN [result |-> IngestResult(DATASET_FORMATS.row,
                                Processed("processRowObject", content, yields)),
        warn |-> 0]
  ELSE IF isGeoJson(content)
  THEN [result |-> IngestResult(DATASET_FORMATS.geojson,
                                Processed("processGeojson", content, yields)),
        warn |-> 0]
  ELSE [result |-> Null, warn |-> 1]

\* the continuation of loadCsv (line 98); rawData is the text read
loadCsvThen(rawData, format, yields) ==
  IF rawData # <<>>
  THEN IngestResult(format, Processed("processCsvData", rawData, yields))
  ELSE Null

----------------------------------------------------------------------------
(* JSON documents *)

RowObj == Obj([a |-> Num(1)])
Elems == {Num(1), RowObj}
ElemSeqs == UNION {[1..n -> Elems] : n \in 0..MaxElems}

\* a text that is not well-formed JSON: parse throws
Malformed == [t |-> "malformed"]

KeplerInfo == Obj([app |-> Str("kepler.gl")])
KeplerDoc(es) ==
  Obj([datasets |-> Arr(es), config |-> Obj(NoProps), info |-> KeplerInfo])
FeatureCollectionDoc(es) ==
  Obj([type |-> Str("FeatureCollection"), features |-> Arr(es)])
FeatureDoc ==
  Obj([type |-> Str("Feature"), geometry |-> Obj([type |-> Str("Point")])])

----------------------------------------------------------------------------
(* Batch reassembly of parseFileInBatches (lines 153-182) *)

DataBatch(rows) == [batchType |-> "data", data |-> rows, container |-> Undefined]
RootComplete(container) ==
  [batchType |-> "root-object-batch-complete", data |-> <<>>,
   container |-> container]

\* for (const k in container) if (k !== "datasets" && k !== "features")
\*   result[k] = container[k]
\* The containers of this model are objects, or arrays without elements,
\* so the enumerable keys are the named properties.
CopyContainer(result, container) ==
  LET src == IF container.t \in {"obj", "arr"} THEN container.o ELSE NoProps
      keys == DOMAIN src \ {"datasets", "features"}
  IN [result EXCEPT !.o = [k \in DOMAIN result.o \cup keys |->
                             IF k \in keys THEN src[k] ELSE result.o[k]]]

\* mutant of ConsumeBatch: a Data batch is put in front of the rows so far
ConsumeBatch_Prepends(st, batch) ==
  IF batch.batchType = "root-object-batch-complete"
  THEN LET r == IF Truthy(Get(batch.container, "features"))
                THEN SetProp(st.result, "features", Arr(st.batches))
                ELSE IF Truthy(Get(batch.container, "datasets"))
                THEN SetProp(st.result, "datasets", Arr(st.batches))
                ELSE Arr(st.batches)
       IN [result |-> CopyContainer(r, batch.container), batches |-> st.batches]
  ELSE [result |-> st.result, batches |-> batch.data \o st.batches]

\* one iteration of the for await loop; st = [result, batches]
ConsumeBatch(st, batch) ==
  IF batch.batchType = "root-object-batch-complete"
  THEN LET r == IF Truthy(Get(batch.container, "features"))
                THEN SetProp(st.result, "features", Arr(st.batches))
                ELSE IF Truthy(Get(batch.container, "datasets"))
                THEN SetProp(st.result, "datasets", Arr(st.batches))
                ELSE Arr(st.batches)
       IN [result |-> CopyContainer(r, batch.container), batches |-> st.batches]
  ELSE [result |-> st.result, batches |-> st.batches \o batch.data]

\* nothing has been handed to the for await loop yet
NoBatches == [data |-> <<>>, sizes |-> <<>>, container |-> Undefined]

\* let result = {}; let batches = [];
AssemblerInit == [result |-> Obj(NoProps), batches |-> <<>>]

----------------------------------------------------------------------------
(* The incremental JSON parser (parseInBatches with _rootObjectBatches), an *)
(* external library: it streams the elements of one array of the document   *)
(* in Data batches and ends with the RootComplete batch, whose container is *)
(* the top-level value without the streamed elements.                       *)

\* the property of an object document whose array is streamed, "" if none
StreamedKey(doc) ==
  IF Get(doc, "features").t = "arr" THEN "features"
  ELSE IF Get(doc, "datasets").t = "arr" THEN "datasets"
  ELSE ""

\* the elements the parser emits in Data batches, in document order
StreamedRows(doc) ==
  IF doc.t = "arr" THEN doc.a
  ELSE IF StreamedKey(doc) # "" THEN Get(doc, StreamedKey(doc)).a
  ELSE <<>>

\* the containers the parser may report on RootComplete; for a bare
\* top-level array the library's container is either the emptied array or
\* the first row (the observation recorded at line 168)
Containers(doc) ==
  IF doc.t = "arr"
  THEN {Arr(<<>>)} \cup (IF Len(doc.a) > 0 THEN {doc.a[1]} ELSE {})
  ELSE IF StreamedKey(doc) # ""
  THEN {SetProp(doc, StreamedKey(doc), Arr(<<>>))}
  ELSE {doc}

----------------------------------------------------------------------------
(* filesToDataPayload: a cache entry is {data, info}, info a record of the  *)
(* keys label, format and id that are there. A dataset id n > 0 stands for  *)
(* the n-th of distinct non-empty strings, the id 0 for the empty string.   *)

\* longest cache handed to filesToDataPayload on its own
MaxFiles == 3

\* utils/utils generateHashId(4): the ids it hands out
HashIds == 1..MaxFiles

\* the values successive generateHashId calls of one filesToDataPayload call
\* return: n ids, each distinct from the ones before
FreshHashes(n) ==
  {h \in [1..n -> HashIds] : \A i, j \in 1..n : i # j => h[i] # h[j]}

\* object spread {...a, ...b}: the later source wins
Spread(a, b) ==
  [k \in DOMAIN a \cup DOMAIN b |-> IF k \in DOMAIN b THEN b[k] ELSE a[k]]

NoInfo == [k \in {} |-> 0]

\* const {data, info = {}} = file (line 251)
InfoOf(file) == IF "info" \in DOMAIN file THEN file.info ELSE NoInfo

\* format === DATASET_FORMATS.keplergl (line 253)
IsMapEntry(file) ==
  /\ "format" \in DOMAIN InfoOf(file)
  /\ InfoOf(file).format = DATASET_FORMATS.keplergl

\* the else-branch's test DATASET_FORMATS[format] (line 261)
IsDatasetEntry(file) ==
  /\ ~IsMapEntry(file)
  /\ "format" \in DOMAIN InfoOf(file)
  /\ InfoOf(file).format \in DOMAIN DATASET_FORMATS

\* info.id is falsy, so that info.id || generateHashId(4) calls the generator
NeedsHash(info) == ~("id" \in DOMAIN info /\ info.id # 0)

\* how many times filesToDataPayload(fileCache) calls generateHashId
HashCalls(fileCache) ==
  Cardinality({i \in DOMAIN fileCache :
                 IsDatasetEntry(fileCache[i]) /\ NeedsHash(InfoOf(fileCache[i]))})

\* mutant of MapOp: centerMap looks at config only, not at its mapState
MapOp_ConfigOnly(data) ==
  LET config == Get(data, "config")
      centerMap == ~Truthy(config)
  IN Obj(Spread(data.o, [options |-> Obj([centerMap |-> Bool(centerMap)])]))

\* the map operation pushed at lines 255-260
MapOp(data) ==
  LET config == Get(data, "config")
      centerMap == ~(Truthy(config) /\ Truthy(Get(config, "mapState")))
  IN Obj(Spread(data.o, [options |-> Obj([centerMap |-> Bool(centerMap)])]))

\* the dataset built at lines 263-269; hash is what generateHashId returns
\* if it is called
NewDataset(file, hash) ==
  LET info == InfoOf(file)
      id == IF NeedsHash(info) THEN hash ELSE info.id
  IN [data |-> file.data, info |-> Spread([id |-> id], info)]

\* the reduce of lines 249-275 over fileCache; calls counts the
\* generateHashId calls made so far
RECURSIVE Collect(_, _)
Collect(fileCache, hashes) ==
  IF fileCache = <<>>
  THEN [datasets |-> <<>>, keplerMaps |-> <<>>, calls |-> 0]
  ELSE LET accu == Collect(SubSeq(fileCache, 1, Len(fileCache) - 1), hashes)
           file == fileCache[Len(fileCache)]
       IN IF IsMapEntry(file)
          THEN [accu EXCEPT !.keplerMaps = Append(@, MapOp(file.data))]
          ELSE IF IsDatasetEntry(file)
          THEN IF NeedsHash(InfoOf(file))
               THEN [accu EXCEPT
                       !.datasets =
                          Append(@, NewDataset(file, hashes[accu.calls + 1])),
                       !.calls = @ + 1]
               ELSE [accu EXCEPT !.datasets = Append(@, NewDataset(file, 0))]
          ELSE accu

\* mutant of filesToDataPayload: the datasets operation comes first
filesToDataPayload_DatasetsFirst(fileCache, hashes) ==
  LET collection == Collect(fileCache, hashes)
  IN <<Obj([datasets |-> Arr(collection.datasets)])>> \o collection.keplerMaps

\* filesToDataPayload (lines 247-280)
filesToDataPayload(fileCache, hashes) ==
  LET collection == Collect(fileCache, hashes)
  IN collection.keplerMaps \o <<Obj([datasets |-> Arr(collection.datasets)])>>

----------------------------------------------------------------------------
(* readFile: one ingestion task *)

\* readJSONFile's size threshold and parseFileInBatches' chunk size
STREAM_THRESHOLD == 250 * 1024 * 1024
chunkSize == 1024 * 1024

VARIABLES
  file,          \* the file blob: name, size, text, doc (what the text parses to)
  fileCache,     \* the cache handed to readFile
  pc,            \* which callback of the task runs next
  offset,        \* fileReaderAsyncIterable's offset
  emitted,       \* how many rows the incremental parser has emitted
  asm,           \* parseFileInBatches' locals: result and batches
  stream,        \* what the for await loop was handed (kept under SpecJson):
                 \* rows in arrival order, size of each Data batch, container
                 \* of the RootComplete batch
  readPromise,   \* promise of readCSVFile / readJSONFile
  ingestPromise, \* promise returned by the handler (loadCsv / loadJSON)
  thenPromise,   \* promise returned by handler(...).then(...) at line 49
  filePromise,   \* promise returned by readFile
  resolveCalls,  \* invocations of readFile's resolve
  rejectCalls,   \* invocations of readFile's reject
  handlerCalls,  \* invocations of an ingestor
  warnings,      \* Console.warn calls
  thrown,        \* exceptions thrown inside the task's callbacks
  afterSettle,   \* what readFile's code still did after calling resolve
  readFailed,    \* the underlying read of the file failed
  filename,      \* the argument of a getFileType call
  fileType,      \* what that call returned, "" before it returns
  afterRoot,     \* the for await loop after its first RootComplete batch:
                 \* result at that point, and the batches requested since
  reads,         \* the chunk reader's FileReader traffic: reads in flight
                 \* and the byte range of every slice requested so far
  payload,       \* what filesToDataPayload returned, once it has
  tasks,         \* the readFile calls of a multi-file upload, one per file
  sharedCache,   \* the cache the upload accumulates
  completed      \* the files whose readFile promise resolved, in that order

sniffVars == <<filename, fileType>>

taskVars ==
  <<file, fileCache, pc, offset, emitted, asm, stream, readPromise, ingestPromise,
    thenPromise, filePromise, resolveCalls, rejectCalls, handlerCalls,
    warnings, thrown, afterSettle, readFailed>>

auxVars == <<afterRoot, reads, payload, tasks, sharedCache, completed>>

\* the for await loop has not seen a RootComplete batch
NoRoot == [seen |-> FALSE, result |-> Undefined, requests |-> 0]

\* no FileReader has been started
NoReads == [inFlight |-> 0, slices |-> <<>>, delivered |-> 0]

\* filesToDataPayload has not been called
NoPayload == [returned |-> FALSE, ops |-> <<>>, hashes |-> <<>>]

\* nothing outside the single readFile task has happened
AuxIdle ==
  /\ afterRoot = NoRoot
  /\ reads = NoReads
  /\ payload = NoPayload
  /\ tasks = <<>>
  /\ sharedCache = <<>>
  /\ completed = <<>>

Pending == [state |-> "pending", value |-> Undefined]
Fulfilled(v) == [state |-> "fulfilled", value |-> v]
Rejected(e) == [state |-> "rejected", value |-> e]

\* a promise's resolve / reject function: only the first call settles it
Settle(p, outcome) == IF p.state = "pending" THEN outcome ELSE p

TypeError == [t |-> "error", name |-> "TypeError"]
ReadError == [t |-> "error", name |-> "ReadError"]
SyntaxError == [t |-> "error", name |-> "SyntaxError"]

Name(prefix, ext) == prefix \o <<".">> \o ext
TaskNames ==
  {Name(<<"a">>, csvSuffix), Name(<<"b">>, jsonSuffix),
   Name(<<"c">>, geojsonSuffix), Name(<<"d">>, <<"t", "x", "t">>)}

Texts == {<<>>, <<"x">>}

\* the JSON documents ingested by the task
TaskDocs ==
  {KeplerDoc(<<RowObj>>), Arr(<<RowObj>>), Arr(<<>>),
   FeatureCollectionDoc(<<RowObj>>), FeatureDoc, Obj(NoProps), Malformed}

\* size in bytes of a JSON file below the streaming threshold
SmallSize == 1

\* a JSON text parses to doc; any other text is not looked at as JSON
Files ==
  {[name |-> n, size |-> Len(x), text |-> x, doc |-> Malformed, yields |-> y] :
     n \in {m \in TaskNames : getFileType(m) # "json"}, x \in Texts,
     y \in BOOLEAN}
  \cup
  {[name |-> n, size |-> z, text |-> <<"x">>, doc |-> d, yields |-> y] :
     n \in {m \in TaskNames : getFileType(m) = "json"},
     z \in {SmallSize, STREAM_THRESHOLD}, d \in TaskDocs, y \in BOOLEAN}

CsvEntry ==
  [data |-> Processed("processCsvData", <<"x">>, TRUE),
   info |-> [label |-> Name(<<"e">>, csvSuffix), format |-> "csv"]]
MapEntry ==
  [data |-> Processed("processKeplerglJSON", KeplerDoc(<<>>), TRUE),
   info |-> [label |-> Name(<<"m">>, jsonSuffix), format |-> "keplergl"]]
CacheEntries == {CsvEntry, MapEntry}
Caches == UNION {[1..n -> CacheEntries] : n \in 0..MaxCache}

Init ==
  /\ file \in Files
  /\ fileCache \in Caches
  /\ pc = "readFile"
  /\ offset = 0
  /\ emitted = 0
  /\ asm = AssemblerInit
  /\ stream = NoBatches
  /\ readPromise = Pending
  /\ ingestPromise = Pending
  /\ thenPromise = Pending
  /\ filePromise = Pending
  /\ resolveCalls = 0
  /\ rejectCalls = 0
  /\ handlerCalls = 0
  /\ warnings = 0
  /\ thrown = 0
  /\ afterSettle = {}
  /\ readFailed = FALSE
  /\ filename = <<>>
  /\ fileType = ""
  /\ AuxIdle

\* readFile's executor (lines 40-49) up to the start of the handler's read
ReadFile ==
  /\ pc = "readFile"
  /\ LET h == getFileHandler(file) IN
     IF h.handler = "undefined"
     THEN \* warn, resolve(fileCache), then call undefined: the TypeError is
          \* caught by the Promise constructor, which calls reject
          /\ warnings' = warnings + 1
          /\ resolveCalls' = resolveCalls + 1
          /\ rejectCalls' = rejectCalls + 1
          /\ thrown' = thrown + 1
          /\ afterSettle' = afterSettle \cup {"handlerCall"}
          /\ filePromise' = Settle(Settle(filePromise, Fulfilled(fileCache)),
                                   Rejected(TypeError))
          /\ pc' = "done"
          /\ UNCHANGED handlerCalls
     ELSE /\ handlerCalls' = handlerCalls + 1
          /\ pc' = IF h.handler = "loadCsv" THEN "readAsText"
                   ELSE "readJSONFile"
          /\ UNCHANGED <<warnings, resolveCalls, rejectCalls, thrown,
                         afterSettle, filePromise>>
  /\ UNCHANGED <<sniffVars, auxVars, stream, file, fileCache, offset, emitted, asm, readPromise,
                 ingestPromise, thenPromise, readFailed>>

\* readCSVFile's fileReader.onload (lines 89-91)
CsvOnLoad ==
  /\ pc = "readAsText"
  /\ readPromise' = Settle(readPromise, Fulfilled(file.text))
  /\ pc' = "loadCsvThen"
  /\ UNCHANGED <<sniffVars, auxVars, stream, file, fileCache, offset, emitted, asm, ingestPromise,
                 thenPromise, filePromise, resolveCalls, rejectCalls,
                 handlerCalls, warnings, thrown, afterSettle, readFailed>>

\* the read of readCSVFile fails: no onerror handler is registered
\* (lines 87-94), so nothing runs and nothing is scheduled
CsvOnError ==
  /\ pc = "readAsText"
  /\ readFailed' = TRUE
  /\ pc' = "idle"
  /\ UNCHANGED <<sniffVars, auxVars, stream, file, fileCache, offset, emitted, asm, readPromise,
                 ingestPromise, thenPromise, filePromise, resolveCalls,
                 rejectCalls, handlerCalls, warnings, thrown, afterSettle>>

\* loadCsv's continuation (line 98)
LoadCsvThen ==
  /\ pc = "loadCsvThen"
  /\ ingestPromise' =
       Settle(ingestPromise,
              Fulfilled(loadCsvThen(readPromise.value,
                                    getFileHandler(file).format, file.yields)))
  /\ pc' = "readFileThen"
  /\ UNCHANGED <<sniffVars, auxVars, stream, file, fileCache, offset, emitted, asm, readPromise,
                 thenPromise, filePromise, resolveCalls, rejectCalls,
                 handlerCalls, warnings, thrown, afterSettle, readFailed>>

\* mutant of ReadJSONFile: a file of exactly the threshold is parsed whole
ReadJSONFile_Above ==
  /\ pc = "readJSONFile"
  /\ pc' = IF file.size > STREAM_THRESHOLD THEN "readChunk" ELSE "readJSONText"
  /\ UNCHANGED <<sniffVars, auxVars, stream, file, fileCache, offset, emitted, asm, readPromise,
                 ingestPromise, thenPromise, filePromise, resolveCalls,
                 rejectCalls, handlerCalls, warnings, thrown, afterSettle,
                 readFailed>>

\* readJSONFile (lines 203-209), called by loadJSON: the size picks the path
ReadJSONFile ==
  /\ pc = "readJSONFile"
  /\ pc' = IF file.size >= STREAM_THRESHOLD THEN "readChunk" ELSE "readJSONText"
  /\ UNCHANGED <<sniffVars, auxVars, stream, file, fileCache, offset, emitted, asm, readPromise,
                 ingestPromise, thenPromise, filePromise, resolveCalls,
                 rejectCalls, handlerCalls, warnings, thrown, afterSettle,
                 readFailed>>

\* parseFile's fileReader.onload (lines 189-196): parse, then resolve or reject
JsonOnLoad ==
  /\ pc = "readJSONText"
  /\ IF file.doc = Malformed
     THEN /\ readPromise' = Settle(readPromise, Rejected(SyntaxError))
          /\ thrown' = thrown + 1
     ELSE /\ readPromise' = Settle(readPromise, Fulfilled(file.doc))
          /\ UNCHANGED thrown
  /\ pc' = "loadJSONThen"
  /\ UNCHANGED <<sniffVars, auxVars, stream, file, fileCache, offset, emitted, asm, ingestPromise,
                 thenPromise, filePromise, resolveCalls, rejectCalls,
                 handlerCalls, warnings, afterSettle, readFailed>>

\* parseFile's fileReader.onerror / onabort (lines 197-198)
JsonOnError ==
  /\ pc = "readJSONText"
  /\ readFailed' = TRUE
  /\ readPromise' = Settle(readPromise, Rejected(ReadError))
  /\ pc' = "loadJSONThen"
  /\ UNCHANGED <<sniffVars, auxVars, stream, file, fileCache, offset, emitted, asm, ingestPromise,
                 thenPromise, filePromise, resolveCalls, rejectCalls,
                 handlerCalls, warnings, thrown, afterSettle>>

\* a chunk read completes (lines 132-140): the chunk goes to the parser, which
\* emits a Data batch of the next k rows; the for await loop consumes it
\* (line 179) and the reader moves on (line 127)
ChunkOnLoad ==
  /\ pc = "readChunk"
  /\ offset' = offset + chunkSize
  /\ \E k \in 0..(Len(StreamedRows(file.doc)) - emitted) :
       /\ asm' = ConsumeBatch(asm,
                   DataBatch(SubSeq(StreamedRows(file.doc),
                                    emitted + 1, emitted + k)))
       /\ emitted' = emitted + k
  /\ pc' = IF offset' < file.size THEN "readChunk" ELSE "streamEnd"
  /\ UNCHANGED <<sniffVars, auxVars, stream, file, fileCache, readPromise, ingestPromise, thenPromise,
                 filePromise, resolveCalls, rejectCalls, handlerCalls,
                 warnings, thrown, afterSettle, readFailed>>

\* a chunk read fails (lines 135-136): the rejection ends the batch iterator
\* and with it parseFileInBatches
ChunkOnError ==
  /\ pc = "readChunk"
  /\ readFailed' = TRUE
  /\ readPromise' = Settle(readPromise, Rejected(ReadError))
  /\ pc' = "loadJSONThen"
  /\ UNCHANGED <<sniffVars, auxVars, stream, file, fileCache, offset, emitted, asm, ingestPromise,
                 thenPromise, filePromise, resolveCalls, rejectCalls,
                 handlerCalls, warnings, thrown, afterSettle>>

\* the chunk reader is exhausted: the parser emits the rows still pending
\* and the RootComplete batch; parseFileInBatches returns result (line 182)
StreamEnd ==
  /\ pc = "streamEnd"
  /\ IF file.doc = Malformed
     THEN /\ readPromise' = Settle(readPromise, Rejected(SyntaxError))
          /\ thrown' = thrown + 1
          /\ UNCHANGED <<asm, emitted>>
     ELSE /\ \E c \in Containers(file.doc) :
               asm' = ConsumeBatch(
                        ConsumeBatch(asm,
                          DataBatch(SubSeq(StreamedRows(file.doc), emitted + 1,
                                           Len(StreamedRows(file.doc))))),
                        RootComplete(c))
          /\ emitted' = Len(StreamedRows(file.doc))
          /\ readPromise' = Settle(readPromise, Fulfilled(asm'.result))
          /\ UNCHANGED thrown
  /\ pc' = "loadJSONThen"
  /\ UNCHANGED <<sniffVars, auxVars, stream, file, fileCache, offset, ingestPromise, thenPromise,
                 filePromise, resolveCalls, rejectCalls, handlerCalls,
                 warnings, afterSettle, readFailed>>

\* loadJSON's continuation (lines 102-122); a rejected read skips it and
\* rejects loadJSON's promise
LoadJSONThen ==
  /\ pc = "loadJSONThen"
  /\ IF readPromise.state = "fulfilled"
     THEN LET r == loadJSONThen(readPromise.value, file.yields) IN
          /\ ingestPromise' = Settle(ingestPromise, Fulfilled(r.result))
          /\ warnings' = warnings + r.warn
     ELSE /\ ingestPromise' = Settle(ingestPromise, Rejected(readPromise.value))
          /\ UNCHANGED warnings
  /\ pc' = "readFileThen"
  /\ UNCHANGED <<sniffVars, auxVars, stream, file, fileCache, offset, emitted, asm, readPromise,
                 thenPromise, filePromise, resolveCalls, rejectCalls,
                 handlerCalls, thrown, afterSettle, readFailed>>

\* mutant of NoData: the test forgets !result.data
NoData_IgnoresData(result) == ~Truthy(result)

\* if (!result || !result.data)
NoData(result) == ~Truthy(result) \/ ~Truthy(result.data)

\* mutant of NewEntry: the entry is tagged with the handler's format
NewEntry_HandlerFormat(f, result) ==
  [data |-> result.data,
   info |-> [label |-> f.name, format |-> getFileType(f.name)]]

\* the entry readFile appends (lines 56-62)
NewEntry(f, result) ==
  [data |-> result.data, info |-> [label |-> f.name, format |-> result.format]]

\* readFile's continuation (lines 49-64); it has no rejection handler, so a
\* rejected ingestor only rejects the promise .then returned
ReadFileThen ==
  /\ pc = "readFileThen"
  /\ LET result == ingestPromise.value IN
     IF ingestPromise.state = "rejected"
     THEN /\ thenPromise' = Settle(thenPromise, Rejected(result))
          /\ UNCHANGED <<filePromise, resolveCalls, thrown, afterSettle>>
     ELSE IF NoData(result)
     THEN IF ~Truthy(result)
          THEN \* resolve(fileCache), then result.data throws on null
               /\ filePromise' = Settle(filePromise, Fulfilled(fileCache))
               /\ resolveCalls' = resolveCalls + 1
               /\ thrown' = thrown + 1
               /\ afterSettle' = afterSettle \cup {"readData"}
               /\ thenPromise' = Settle(thenPromise, Rejected(TypeError))
          ELSE \* resolve(fileCache), then resolve([...fileCache, entry])
               /\ filePromise' =
                    Settle(Settle(filePromise, Fulfilled(fileCache)),
                           Fulfilled(Append(fileCache, NewEntry(file, result))))
               /\ resolveCalls' = resolveCalls + 2
               /\ afterSettle' = afterSettle \cup {"readData", "resolve"}
               /\ thenPromise' = Settle(thenPromise, Fulfilled(Undefined))
               /\ UNCHANGED thrown
     ELSE /\ filePromise' =
               Settle(filePromise,
                      Fulfilled(Append(fileCache, NewEntry(file, result))))
          /\ resolveCalls' = resolveCalls + 1
          /\ thenPromise' = Settle(thenPromise, Fulfilled(Undefined))
          /\ UNCHANGED <<thrown, afterSettle>>
  /\ pc' = "done"
  /\ UNCHANGED <<sniffVars, auxVars, stream, file, fileCache, offset, emitted, asm, readPromise,
                 ingestPromise, rejectCalls, handlerCalls, warnings,
                 readFailed>>

\* mutant of FilesToDataPayload: the generated id is also written into the
\* cache entry's info
FilesToDataPayload_WritesIds ==
  /\ pc = "done"
  /\ filePromise.state = "fulfilled"
  /\ ~payload.returned
  /\ \E hashes \in FreshHashes(HashCalls(filePromise.value)) :
       /\ payload' = [returned |-> TRUE,
                      ops |-> filesToDataPayload(filePromise.value, hashes),
                      hashes |-> hashes]
       /\ filePromise' =
            [filePromise EXCEPT !.value =
               [i \in DOMAIN @ |->
                  IF IsDatasetEntry(@[i]) /\ NeedsHash(InfoOf(@[i]))
                  THEN NewDataset(@[i], hashes[1]) ELSE @[i]]]
  /\ UNCHANGED <<sniffVars, afterRoot, reads, tasks, sharedCache, completed,
                 file, fileCache, pc, offset, emitted, asm, stream,
                 readPromise, ingestPromise, thenPromise, resolveCalls,
                 rejectCalls, handlerCalls, warnings, thrown, afterSettle,
                 readFailed>>

\* the caller hands the cache readFile resolved with to filesToDataPayload
\* (lines 247-280)
FilesToDataPayload ==
  /\ pc = "done"
  /\ filePromise.state = "fulfilled"
  /\ ~payload.returned
  /\ \E hashes \in FreshHashes(HashCalls(filePromise.value)) :
       payload' = [returned |-> TRUE,
                   ops |-> filesToDataPayload(filePromise.value, hashes),
                   hashes |-> hashes]
  /\ UNCHANGED <<sniffVars, taskVars, afterRoot, reads, tasks, sharedCache,
                 completed>>

Next ==
  \/ ReadFile
  \/ CsvOnLoad
  \/ CsvOnError
  \/ LoadCsvThen
  \/ ReadJSONFile
  \/ JsonOnLoad
  \/ JsonOnError
  \/ ChunkOnLoad
  \/ ChunkOnError
  \/ StreamEnd
  \/ LoadJSONThen
  \/ ReadFileThen
  \/ FilesToDataPayload

vars == <<taskVars, sniffVars, auxVars>>

Spec == Init /\ [][Next]_vars

----------------------------------------------------------------------------
(* Claims about readFile, checked under Spec *)

\* the task has no callback left to run
Quiescent == pc \in {"done", "idle"}

NoPromiseRejected ==
  /\ readPromise.state # "rejected"
  /\ ingestPromise.state # "rejected"
  /\ thenPromise.state # "rejected"
  /\ filePromise.state # "rejected"

\* C1: readFile's promise is settled exactly once: resolve and reject are
\* invoked at most once in total at any time, exactly once when the task has
\* run to its end, and readFile does nothing more (no handler call, no read
\* of result.data, no second resolve) after the settling call.
C1_SettledExactlyOnce ==
  /\ resolveCalls + rejectCalls <= 1
  /\ Quiescent => resolveCalls + rejectCalls = 1
  /\ afterSettle = {}

\* C2: when the underlying read of the file has failed and the task has run
\* to its end, the ingestor's promise and readFile's promise are rejected:
\* neither is left pending and neither is fulfilled.
C2_ReadFailureRejects ==
  (readFailed /\ Quiescent) =>
    (ingestPromise.state = "rejected" /\ filePromise.state = "rejected")

\* C3: for a file of type other, readFile resolves with the input cache
\* unchanged, warns exactly once, invokes no ingestor and raises no error.
C3_OtherLeavesCacheUnchanged ==
  (getFileType(file.name) = "other" /\ Quiescent) =>
    /\ filePromise = Fulfilled(fileCache)
    /\ warnings = 1
    /\ handlerCalls = 0
    /\ thrown = 0

\* C4: when the ingestor's result is null or has no data, readFile resolves
\* with the input cache unchanged; an empty CSV text and a JSON document of
\* unsupported shape (here the empty array) make the ingestor resolve null.
C4_NoDataLeavesCacheUnchanged ==
  /\ (/\ pc = "done"
      /\ ingestPromise.state = "fulfilled"
      /\ (ingestPromise.value = Null \/ ~Truthy(ingestPromise.value.data)))
       => filePromise = Fulfilled(fileCache)
  /\ (/\ pc = "done"
      /\ ~readFailed
      /\ \/ getFileType(file.name) = "csv" /\ file.text = <<>>
         \/ getFileType(file.name) = "json" /\ file.doc = Arr(<<>>)
            /\ file.size < STREAM_THRESHOLD)
       => (ingestPromise = Fulfilled(Null) /\ filePromise = Fulfilled(fileCache))

\* C4 witness: an empty CSV file was ingested into a non-empty cache
C4_Witness ==
  /\ pc = "done"
  /\ getFileType(file.name) = "csv"
  /\ file.text = <<>>
  /\ ingestPromise = Fulfilled(Null)
  /\ Len(fileCache) > 0
  /\ filePromise = Fulfilled(fileCache)

\* C5: an unsupported file type, an empty CSV and a JSON document of no
\* recognised shape (the ingestor resolved null) never throw and leave no
\* promise of the task rejected.
C5_SkipsNeverFail ==
  (~readFailed /\ (getFileType(file.name) = "other"
                   \/ ingestPromise = Fulfilled(Null))) =>
    (thrown = 0 /\ NoPromiseRejected)

\* C6: when the ingestor's result has data, readFile resolves with the input
\* cache followed by the one entry {data: result.data, info: {label:
\* file.name, format: result.format}}, resolve is called once, and a resolved
\* cache is never more than one entry longer than the input cache.
C6_SuccessAppendsOneEntry ==
  /\ (/\ pc = "done"
      /\ ingestPromise.state = "fulfilled"
      /\ ingestPromise.value # Null
      /\ Truthy(ingestPromise.value.data))
       => LET r == ingestPromise.value
              c == filePromise.value
          IN /\ filePromise.state = "fulfilled"
             /\ Len(c) = Len(fileCache) + 1
             /\ SubSeq(c, 1, Len(fileCache)) = fileCache
             /\ c[Len(c)] = [data |-> r.data,
                             info |-> [label |-> file.name, format |-> r.format]]
             /\ resolveCalls = 1
  /\ filePromise.state = "fulfilled"
       => Len(filePromise.value) \in {Len(fileCache), Len(fileCache) + 1}

\* C6 witness: a GeoJSON file was appended to a non-empty cache
C6_Witness ==
  /\ pc = "done"
  /\ Len(fileCache) > 0
  /\ ingestPromise.state = "fulfilled"
  /\ ingestPromise.value # Null
  /\ ingestPromise.value.format = "geojson"
  /\ Truthy(ingestPromise.value.data)
  /\ Len(filePromise.value) = Len(fileCache) + 1

----------------------------------------------------------------------------
(* getFileType on its own: SpecSniff calls it on every name of SniffNames *)

PrefixChars == {"a", "."}
Prefixes == UNION {[1..n -> PrefixChars] : n \in 0..MaxPrefix}
Suffixes ==
  {<<>>, csvSuffix, <<".">> \o csvSuffix, jsonSuffix, <<".">> \o jsonSuffix,
   geojsonSuffix, <<".">> \o geojsonSuffix, <<"t", "x", "t">>,
   <<".", "t", "x", "t">>, <<".", "c", "s">>, <<"s", "v">>, <<"s", "o", "n">>,
   <<".", "c", "s", "v", "x">>, <<".", "j", "s", "o", "n", ".">>,
   <<"c", "s", "v", ".", "j", "s", "o", "n">>,
   <<"j", "s", "o", "n", ".", "c", "s", "v">>}
SniffNames == {p \o x : p \in Prefixes, x \in Suffixes}

\* task variables stay as readFile leaves them before it is called
TaskNotStarted ==
  /\ file = [name |-> <<>>, size |-> 0, text |-> <<>>, doc |-> Malformed,
             yields |-> FALSE]
  /\ fileCache = <<>>
  /\ pc = "none"
  /\ offset = 0
  /\ emitted = 0
  /\ asm = AssemblerInit
  /\ stream = NoBatches
  /\ readPromise = Pending
  /\ ingestPromise = Pending
  /\ thenPromise = Pending
  /\ filePromise = Pending
  /\ resolveCalls = 0
  /\ rejectCalls = 0
  /\ handlerCalls = 0
  /\ warnings = 0
  /\ thrown = 0
  /\ afterSettle = {}
  /\ readFailed = FALSE
  /\ AuxIdle

InitSniff ==
  /\ filename \in SniffNames
  /\ fileType = ""
  /\ TaskNotStarted

\* a call getFileType(filename) returns
GetFileType ==
  /\ fileType = ""
  /\ fileType' = getFileType(filename)
  /\ UNCHANGED <<filename, taskVars, auxVars>>

NextSniff == GetFileType

SpecSniff == InitSniff /\ [][NextSniff]_vars

\* C7: getFileType returns csv iff the name ends with ".csv", json iff it
\* ends with ".json" or ".geojson", and other for every other name.
C7_SuffixWithDot ==
  fileType # "" =>
    /\ fileType = "csv" <=> EndsWith(filename, <<".">> \o csvSuffix)
    /\ fileType = "json" <=> (\/ EndsWith(filename, <<".">> \o jsonSuffix)
                              \/ EndsWith(filename, <<".">> \o geojsonSuffix))
    /\ fileType = "other" <=>
         ~(\/ EndsWith(filename, <<".">> \o csvSuffix)
           \/ EndsWith(filename, <<".">> \o jsonSuffix)
           \/ EndsWith(filename, <<".">> \o geojsonSuffix))

----------------------------------------------------------------------------
(* loadJSON on its own: SpecJson ingests every document of Docs, on the     *)
(* whole-document path and, batch by batch, on the streaming path           *)

DocKeys == {"type", "geometry", "features", "datasets", "config", "info", "crs"}
BulkValues == {Undefined, Null, Num(0)} \cup {Arr(es) : es \in ElemSeqs}
DocChoices ==
  [type : {Undefined, Str("Feature"), Str("FeatureCollection")},
   geometry : {Undefined, Null, Obj([type |-> Str("Point")])},
   features : BulkValues,
   datasets : BulkValues,
   config : {Undefined, Num(0), Obj(NoProps)},
   info : {Undefined, Null, KeplerInfo, Obj([app |-> Str("other")])},
   crs : {Undefined, Obj([name |-> Str("x")])}]

\* the object with the properties chosen in c; Undefined means absent
MkDoc(c) == Obj([k \in {x \in DocKeys : c[x] # Undefined} |-> c[k]])

\* bulk values without rows
NoRows == {Undefined, Null, Num(0), Arr(<<>>)}

\* the documents ingested: objects in which at most one of features and
\* datasets holds rows, and top-level arrays
Docs ==
  {MkDoc(c) : c \in {x \in DocChoices :
                       x.features \in NoRows \/ x.datasets \in NoRows}}
  \cup {Arr(es) : es \in ElemSeqs}

\* file sizes on both sides of the streaming threshold
JsonSizes == {SmallSize, STREAM_THRESHOLD - 1, STREAM_THRESHOLD}

InitJson ==
  /\ file \in {[name |-> Name(<<"b">>, jsonSuffix), size |-> z,
                text |-> <<"x">>, doc |-> d, yields |-> TRUE] :
                 z \in JsonSizes, d \in Docs}
  /\ fileCache = <<>>
  /\ pc = "readJSONFile"
  /\ offset = 0
  /\ emitted = 0
  /\ asm = AssemblerInit
  /\ stream = NoBatches
  /\ readPromise = Pending
  /\ ingestPromise = Pending
  /\ thenPromise = Pending
  /\ filePromise = Pending
  /\ resolveCalls = 0
  /\ rejectCalls = 0
  /\ handlerCalls = 1
  /\ warnings = 0
  /\ thrown = 0
  /\ afterSettle = {}
  /\ readFailed = FALSE
  /\ filename = <<>>
  /\ fileType = ""
  /\ AuxIdle

\* the parser hands the loop a Data batch with the next k rows (line 179)
BatchData ==
  /\ pc = "readChunk"
  /\ Len(stream.sizes) < MaxBatches
  /\ \E k \in 0..(Len(StreamedRows(file.doc)) - emitted) :
       LET batch == DataBatch(SubSeq(StreamedRows(file.doc),
                                     emitted + 1, emitted + k))
       IN /\ asm' = ConsumeBatch(asm, batch)
          /\ emitted' = emitted + k
          /\ stream' = [stream EXCEPT !.data = @ \o batch.data,
                                      !.sizes = Append(@, k)]
  /\ UNCHANGED <<sniffVars, auxVars, file, fileCache, pc, offset, readPromise,
                 ingestPromise, thenPromise, filePromise, resolveCalls,
                 rejectCalls, handlerCalls, warnings, thrown, afterSettle,
                 readFailed>>

\* every row is out: the parser hands the loop the RootComplete batch
\* (lines 158-177)
BatchRoot ==
  /\ pc = "readChunk"
  /\ emitted = Len(StreamedRows(file.doc))
  /\ \E c \in Containers(file.doc) :
       /\ asm' = ConsumeBatch(asm, RootComplete(c))
       /\ stream' = [stream EXCEPT !.container = c]
  /\ afterRoot' = [seen |-> TRUE, result |-> asm'.result, requests |-> 0]
  /\ pc' = "batchesDone"
  /\ UNCHANGED <<sniffVars, reads, payload, tasks, sharedCache, completed, file, fileCache, offset, emitted, readPromise,
                 ingestPromise, thenPromise, filePromise, resolveCalls,
                 rejectCalls, handlerCalls, warnings, thrown, afterSettle,
                 readFailed>>

\* the for await loop asks for the next batch (line 155) and the iterator
\* is exhausted: parseFileInBatches returns result (line 182)
BatchesDone ==
  /\ pc = "batchesDone"
  /\ afterRoot' = [afterRoot EXCEPT !.requests = @ + 1]
  /\ readPromise' = Settle(readPromise, Fulfilled(asm.result))
  /\ pc' = "loadJSONThen"
  /\ UNCHANGED <<sniffVars, reads, payload, tasks, sharedCache, completed, stream, file, fileCache, offset, emitted, asm,
                 ingestPromise, thenPromise, filePromise, resolveCalls,
                 rejectCalls, handlerCalls, warnings, thrown, afterSettle,
                 readFailed>>

NextJson ==
  \/ ReadJSONFile
  \/ JsonOnLoad
  \/ BatchData
  \/ BatchRoot
  \/ BatchesDone
  \/ LoadJSONThen

SpecJson == InitJson /\ [][NextJson]_vars

----------------------------------------------------------------------------
(* Claims about loadJSON and parseFileInBatches, checked under SpecJson *)

\* the format tag loadJSON resolved with, "null" for a null result
ResultTag == IF ingestPromise.value = Null THEN "null"
             ELSE ingestPromise.value.format

Has(j, k) == j.t = "obj" /\ k \in DOMAIN j.o

\* property k of j is present: the key exists and its value is not null
Present(j, k) == Has(j, k) /\ j.o[k] # Null

\* property k of j is present with a truthy value
PresentTruthy(j, k) ==
  Present(j, k) /\ j.o[k] \notin {Num(0), Str("")}

\* the KeplerMap rule as the claim words it: the three keys are present
KeplerMapByPresence(j) ==
  /\ Present(j, "datasets") /\ Present(j, "config") /\ Present(j, "info")
  /\ Get(Get(j, "info"), "app") = Str("kepler.gl")

\* the KeplerMap rule with the three keys present and truthy
KeplerMapByValue(j) ==
  /\ PresentTruthy(j, "datasets") /\ PresentTruthy(j, "config")
  /\ PresentTruthy(j, "info")
  /\ Get(Get(j, "info"), "app") = Str("kepler.gl")

RowArrayRule(j) == j.t = "arr" /\ Len(j.a) > 0 /\ j.a[1].t = "obj"

GeoJsonRule(j) ==
  \/ Has(j, "type") /\ j.o.type = Str("Feature") /\ PresentTruthy(j, "geometry")
  \/ Has(j, "type") /\ j.o.type = Str("FeatureCollection")
     /\ PresentTruthy(j, "features")

\* loadJSON has resolved after parsing the document J = readPromise.value
Classified == pc = "readFileThen" /\ readPromise.state = "fulfilled"

\* C8 as claimed: first match in the order KeplerMap, RowArray, GeoJson, else
\* null, where KeplerMap holds iff J is a plain object with datasets, config
\* and info present (whatever their non-null values) and info.app =
\* 'kepler.gl', and RowArray iff J is an array whose first element is a
\* plain object.
C8_ClassifiesByPresence ==
  Classified =>
    LET J == readPromise.value IN
    ResultTag = IF KeplerMapByPresence(J) THEN "keplergl"
                ELSE IF RowArrayRule(J) THEN "row"
                ELSE IF GeoJsonRule(J) THEN "geojson"
                ELSE "null"

\* C8 amended: the same first-match order, where KeplerMap holds iff J is a
\* plain object whose datasets, config and info are present with truthy
\* values and info.app = 'kepler.gl'.
C8_ClassifiesByValue ==
  Classified =>
    LET J == readPromise.value IN
    ResultTag = IF KeplerMapByValue(J) THEN "keplergl"
                ELSE IF RowArrayRule(J) THEN "row"
                ELSE IF GeoJsonRule(J) THEN "geojson"
                ELSE "null"

\* C8 witness: a document that is both a kepler map and a Feature was
\* classified keplergl
C8_Witness ==
  /\ Classified
  /\ KeplerMapByValue(readPromise.value)
  /\ GeoJsonRule(readPromise.value)
  /\ Get(readPromise.value, "type") = Str("Feature")
  /\ ResultTag = "keplergl"

\* C9: on the streaming path loadJSON sees the document the whole-document
\* path would have parsed, and resolves with the result the whole-document
\* path would have resolved with.
C9_StreamingEqualsWhole ==
  (Classified /\ file.size >= STREAM_THRESHOLD) =>
    /\ readPromise.value = file.doc
    /\ ingestPromise.value = loadJSONThen(file.doc, file.yields).result

\* the container's properties other than datasets and features, plus key k
\* holding the delivered rows
Reassembled(c, k) ==
  Obj([x \in (DOMAIN c.o \ {"datasets", "features"}) \cup {k} |->
         IF x = k THEN Arr(stream.data) ELSE c.o[x]])

\* parseFileInBatches has returned R = readPromise.value
Returned ==
  pc = "loadJSONThen" /\ file.size >= STREAM_THRESHOLD
  /\ readPromise.state = "fulfilled"

\* C10 as claimed: when the container of the RootComplete batch has a
\* features property (or, failing that, a datasets property), whatever its
\* non-null value, the returned
\* object has the container's other properties verbatim, features
\* (respectively datasets) equal to the Data payloads concatenated in
\* arrival order, and nothing else.
C10_ReassemblesByPresence ==
  Returned =>
    LET c == stream.container
        R == readPromise.value
    IN /\ Present(c, "features") => R = Reassembled(c, "features")
       /\ (~Present(c, "features") /\ Present(c, "datasets"))
            => R = Reassembled(c, "datasets")

\* C10 amended: the same, when the container's features property (or,
\* failing that, its datasets property) has a truthy value.
C10_ReassemblesByValue ==
  Returned =>
    LET c == stream.container
        R == readPromise.value
    IN /\ PresentTruthy(c, "features") => R = Reassembled(c, "features")
       /\ (~PresentTruthy(c, "features") /\ PresentTruthy(c, "datasets"))
            => R = Reassembled(c, "datasets")

\* C10 witness: a FeatureCollection with a crs came back after its rows
\* arrived in two non-empty Data batches and an empty one
C10_Witness ==
  /\ Returned
  /\ stream.sizes = <<1, 0, 1>>
  /\ stream.container =
       Obj([type |-> Str("FeatureCollection"), crs |-> Obj([name |-> Str("x")]),
            features |-> Arr(<<>>)])
  /\ readPromise.value =
       Obj([type |-> Str("FeatureCollection"), crs |-> Obj([name |-> Str("x")]),
            features |-> Arr(<<Num(1), RowObj>>)])


\* the value c has no property named k at all
Lacks(c, k) == ~(c.t \in {"obj", "arr"} /\ k \in DOMAIN c.o)

\* C11: when the container of the RootComplete batch has neither a features
\* nor a datasets property, parseFileInBatches returns exactly the array of
\* the rows delivered so far, with no property of the container copied onto
\* it.
C11_BareArrayReturnsRows ==
  (Returned /\ Lacks(stream.container, "features")
            /\ Lacks(stream.container, "datasets"))
    => readPromise.value = Arr(stream.data)


\* C16: readJSONFile takes the streaming path iff the file's size is at
\* least 250 MiB and the whole-document path otherwise, and only that one
\* path runs: a file of exactly 250 MiB is streamed, a file one byte smaller
\* is parsed whole and never reaches the batch loop.
C16_SelectsPathBySize ==
  pc # "readJSONFile" =>
    IF file.size >= STREAM_THRESHOLD
    THEN /\ pc # "readJSONText"
         /\ readPromise.state # "pending" => stream.container # Undefined
    ELSE /\ pc \notin {"readChunk", "batchesDone"}
         /\ asm = AssemblerInit /\ stream = NoBatches

\* C16 witness: a file of exactly the threshold size is in the batch loop
C16_Witness ==
  /\ file.size = STREAM_THRESHOLD
  /\ pc = "readChunk"
  /\ stream.sizes # <<>>


----------------------------------------------------------------------------
(* parseFileInBatches on a batch stream that goes on after its RootComplete *)
(* batch: SpecAfterRoot hands the for await loop up to MaxExtra batches     *)
(* more before the iterator ends                                            *)

\* how many batches the stream delivers after the first RootComplete
MaxExtra == 2

\* the batches such a stream delivers late
LateBatches ==
  {DataBatch(<<RowObj>>), RootComplete(Obj([late |-> Num(1)])),
   RootComplete(Obj([features |-> Arr(<<>>)]))}

InitAfterRoot ==
  /\ file \in {[name |-> Name(<<"b">>, jsonSuffix), size |-> STREAM_THRESHOLD,
                text |-> <<"x">>, doc |-> d, yields |-> TRUE] :
                 d \in {Arr(es) : es \in ElemSeqs}
                       \cup {FeatureCollectionDoc(es) : es \in ElemSeqs}
                       \cup {KeplerDoc(es) : es \in ElemSeqs}}
  /\ fileCache = <<>>
  /\ pc = "readJSONFile"
  /\ offset = 0
  /\ emitted = 0
  /\ asm = AssemblerInit
  /\ stream = NoBatches
  /\ readPromise = Pending
  /\ ingestPromise = Pending
  /\ thenPromise = Pending
  /\ filePromise = Pending
  /\ resolveCalls = 0
  /\ rejectCalls = 0
  /\ handlerCalls = 1
  /\ warnings = 0
  /\ thrown = 0
  /\ afterSettle = {}
  /\ readFailed = FALSE
  /\ filename = <<>>
  /\ fileType = ""
  /\ AuxIdle

\* the for await loop asks for the next batch (line 155), the iterator
\* delivers one, and the loop body runs on it (lines 158-180)
LateBatch ==
  /\ pc = "batchesDone"
  /\ afterRoot.requests < MaxExtra
  /\ \E batch \in LateBatches : asm' = ConsumeBatch(asm, batch)
  /\ afterRoot' = [afterRoot EXCEPT !.requests = @ + 1]
  /\ UNCHANGED <<sniffVars, reads, payload, tasks, sharedCache, completed,
                 stream, file, fileCache, pc, offset, emitted, readPromise,
                 ingestPromise, thenPromise, filePromise, resolveCalls,
                 rejectCalls, handlerCalls, warnings, thrown, afterSettle,
                 readFailed>>

NextAfterRoot ==
  \/ ReadJSONFile
  \/ BatchData
  \/ BatchRoot
  \/ LateBatch
  \/ BatchesDone
  \/ LoadJSONThen

SpecAfterRoot == InitAfterRoot /\ [][NextAfterRoot]_vars

\* the document parseFileInBatches returned is the result as it stood right
\* after the first RootComplete batch
LateBatchesIgnored ==
  (afterRoot.seen /\ Returned) => readPromise.value = afterRoot.result

\* C19: once the RootComplete batch has been consumed, parseFileInBatches
\* requests no further batch from the stream, and the document it returns
\* is the result as it stood after that batch, whatever the stream would
\* deliver afterwards.
C19_StopsAtRootComplete ==
  /\ afterRoot.seen => afterRoot.requests = 0
  /\ LateBatchesIgnored


----------------------------------------------------------------------------
(* fileReaderAsyncIterable read by read: SpecChunks runs parseFileInBatches *)
(* on files of up to MaxChunks chunks and a byte, the empty file included   *)

\* how many full chunks the files of SpecChunks hold
MaxChunks == 2

ChunkedSizes ==
  {k * chunkSize + d : k \in 0..MaxChunks, d \in {0, 1}} \cup {chunkSize - 1}

Min(a, b) == IF a < b THEN a ELSE b

\* file.slice(offset, end): a Blob's slice ends at the Blob's end at most
Slice(f, from, to) == [from |-> Min(from, f.size), to |-> Min(to, f.size)]

InitChunks ==
  /\ file \in {[name |-> Name(<<"b">>, jsonSuffix), size |-> z,
                text |-> <<"x">>, doc |-> d, yields |-> TRUE] :
                 z \in ChunkedSizes,
                 d \in {Arr(es) : es \in ElemSeqs}
                       \cup {FeatureCollectionDoc(es) : es \in ElemSeqs}}
  /\ fileCache = <<>>
  /\ pc = "nextChunk"
  /\ offset = 0
  /\ emitted = 0
  /\ asm = AssemblerInit
  /\ stream = NoBatches
  /\ readPromise = Pending
  /\ ingestPromise = Pending
  /\ thenPromise = Pending
  /\ filePromise = Pending
  /\ resolveCalls = 0
  /\ rejectCalls = 0
  /\ handlerCalls = 1
  /\ warnings = 0
  /\ thrown = 0
  /\ afterSettle = {}
  /\ readFailed = FALSE
  /\ filename = <<>>
  /\ fileType = ""
  /\ AuxIdle

\* the parser asks the reader for a chunk: the loop test of line 127, then
\* either a FileReader is started on the next slice (lines 128-137) or the
\* generator returns
ChunkRequest ==
  /\ pc = "nextChunk"
  /\ IF offset < file.size
     THEN /\ reads' = [reads EXCEPT
                         !.inFlight = @ + 1,
                         !.slices = Append(@, Slice(file, offset,
                                                    offset + chunkSize))]
          /\ pc' = "readChunk"
     ELSE /\ pc' = "streamEnd"
          /\ UNCHANGED reads
  /\ UNCHANGED <<sniffVars, afterRoot, payload, tasks, sharedCache, completed,
                 stream, file, fileCache, offset, emitted, asm, readPromise,
                 ingestPromise, thenPromise, filePromise, resolveCalls,
                 rejectCalls, handlerCalls, warnings, thrown, afterSettle,
                 readFailed>>

\* mutant of ChunkDeliver: the next slice starts one byte too late
ChunkDeliver_Gap ==
  /\ pc = "readChunk"
  /\ offset' = offset + chunkSize + 1
  /\ reads' = [reads EXCEPT !.inFlight = @ - 1, !.delivered = @ + 1]
  /\ \E k \in 0..(Len(StreamedRows(file.doc)) - emitted) :
       LET batch == DataBatch(SubSeq(StreamedRows(file.doc),
                                     emitted + 1, emitted + k))
       IN /\ asm' = ConsumeBatch(asm, batch)
          /\ emitted' = emitted + k
          /\ stream' = [stream EXCEPT !.data = @ \o batch.data,
                                      !.sizes = Append(@, k)]
  /\ pc' = "nextChunk"
  /\ UNCHANGED <<sniffVars, afterRoot, payload, tasks, sharedCache, completed,
                 file, fileCache, readPromise, ingestPromise, thenPromise,
                 filePromise, resolveCalls, rejectCalls, handlerCalls,
                 warnings, thrown, afterSettle, readFailed>>

\* the FileReader's onload (lines 132-134) resolves the chunk, the generator
\* moves offset on and yields it (lines 139-140); the parser emits a Data
\* batch of the next k rows and the for await loop consumes it (line 179)
ChunkDeliver ==
  /\ pc = "readChunk"
  /\ offset' = offset + chunkSize
  /\ reads' = [reads EXCEPT !.inFlight = @ - 1, !.delivered = @ + 1]
  /\ \E k \in 0..(Len(StreamedRows(file.doc)) - emitted) :
       LET batch == DataBatch(SubSeq(StreamedRows(file.doc),
                                     emitted + 1, emitted + k))
       IN /\ asm' = ConsumeBatch(asm, batch)
          /\ emitted' = emitted + k
          /\ stream' = [stream EXCEPT !.data = @ \o batch.data,
                                      !.sizes = Append(@, k)]
  /\ pc' = "nextChunk"
  /\ UNCHANGED <<sniffVars, afterRoot, payload, tasks, sharedCache, completed,
                 file, fileCache, readPromise, ingestPromise, thenPromise,
                 filePromise, resolveCalls, rejectCalls, handlerCalls,
                 warnings, thrown, afterSettle, readFailed>>

NextChunks ==
  \/ ChunkRequest
  \/ ChunkDeliver
  \/ ChunkOnError
  \/ StreamEnd

SpecChunks == InitChunks /\ [][NextChunks]_vars

\* ceil(a / b)
CeilDiv(a, b) == (a + b - 1) \div b

\* C18: the chunk reads are strictly sequential in byte-offset order: at
\* most one read is in flight, chunk k+1 is requested only after chunk k
\* was delivered, the slices requested are [0,c), [c,2c), ... cut at the
\* file's end, the reader ends after ceil(size / c) chunks when no read
\* fails (none for the empty file), having covered [0, size) exactly once,
\* and the accumulator holds the rows of the Data batches in arrival order.
C18_SequentialChunks ==
  /\ reads.inFlight <= 1
  /\ Len(reads.slices) <= reads.delivered + 1
  /\ \A i \in 1..Len(reads.slices) :
       /\ reads.slices[i].from = (i - 1) * chunkSize
       /\ reads.slices[i].to = Min(i * chunkSize, file.size)
       /\ reads.slices[i].from < reads.slices[i].to
  /\ pc = "streamEnd" =>
       /\ reads.delivered = CeilDiv(file.size, chunkSize)
       /\ Len(reads.slices) = reads.delivered
       /\ file.size > 0 => reads.slices[Len(reads.slices)].to = file.size
  /\ pc \in {"nextChunk", "readChunk", "streamEnd"} =>
       asm.batches = stream.data

\* C18 witness: a file of one chunk and a byte was read in two slices, each
\* followed by a Data batch of one row
C18_Witness ==
  /\ pc = "streamEnd"
  /\ file.size = chunkSize + 1
  /\ reads.slices = <<[from |-> 0, to |-> chunkSize],
                      [from |-> chunkSize, to |-> chunkSize + 1]>>
  /\ stream.sizes = <<1, 1>>
  /\ asm.batches = <<Num(1), RowObj>>


----------------------------------------------------------------------------
(* filesToDataPayload on its own: SpecPayload hands it every cache of up to *)
(* MaxFiles entries drawn from PayloadEntries                               *)

\* what a saved map's config may look like after processKeplerglJSON;
\* Undefined stands for a data object without the config key
ConfigChoices ==
  {Undefined, Null, Obj(NoProps), Obj([mapState |-> Num(0)]),
   Obj([mapState |-> Obj([zoom |-> Num(1)])])}

MapData(config) ==
  IF config = Undefined
  THEN Obj([datasets |-> Arr(<<>>), info |-> KeplerInfo])
  ELSE Obj([datasets |-> Arr(<<>>), config |-> config, info |-> KeplerInfo])

\* the ids a caller may have put into an entry's info: the empty string, an
\* id the generator can produce as well, and one it cannot
SuppliedIds == {0, 1, MaxFiles + 1}

PayloadEntries ==
  {[data |-> MapData(c),
    info |-> [label |-> Name(<<"m">>, jsonSuffix), format |-> "keplergl"]] :
     c \in ConfigChoices}
  \cup {CsvEntry}
  \cup {[CsvEntry EXCEPT !.info = Spread(@, [id |-> i])] : i \in SuppliedIds}
  \cup {[CsvEntry EXCEPT !.info = [label |-> Name(<<"d">>, <<"t", "x", "t">>),
                                   format |-> "other"]],
        [data |-> CsvEntry.data]}

PayloadCaches == UNION {[1..n -> PayloadEntries] : n \in 0..MaxFiles}

\* a readFile call has resolved with the cache it was given
InitPayload ==
  /\ file = [name |-> <<>>, size |-> 0, text |-> <<>>, doc |-> Malformed,
             yields |-> FALSE]
  /\ fileCache \in PayloadCaches
  /\ pc = "done"
  /\ offset = 0
  /\ emitted = 0
  /\ asm = AssemblerInit
  /\ stream = NoBatches
  /\ readPromise = Pending
  /\ ingestPromise = Pending
  /\ thenPromise = Pending
  /\ filePromise = Fulfilled(fileCache)
  /\ resolveCalls = 1
  /\ rejectCalls = 0
  /\ handlerCalls = 0
  /\ warnings = 0
  /\ thrown = 0
  /\ afterSettle = {}
  /\ readFailed = FALSE
  /\ filename = <<>>
  /\ fileType = ""
  /\ AuxIdle

NextPayload == FilesToDataPayload

SpecPayload == InitPayload /\ [][NextPayload]_vars

\* the operation was pushed for a saved map: it carries options
IsMapOp(op) == Has(op, "options")

\* the cache filesToDataPayload was called with
PayloadInput == filePromise.value

\* the list inside the payload's datasets operation
PayloadDatasets == payload.ops[Len(payload.ops)].o.datasets.a

\* dataset d was built from cache entry e: same data, and every key of e's
\* info with the same value
BuiltFrom(d, e) ==
  /\ d.data = e.data
  /\ \A k \in DOMAIN InfoOf(e) : k \in DOMAIN d.info /\ d.info[k] = InfoOf(e)[k]

\* C12: in the payload every map operation comes before the datasets
\* operation, there is at most one datasets operation and it is last, the
\* map operations are those of the cache's keplergl entries in cache order
\* and the datasets those of the cache's dataset entries in cache order,
\* wherever the maps stand in the cache.
C12_MapsThenDatasets ==
  payload.returned =>
    LET ops == payload.ops
        maps == SelectSeq(PayloadInput, IsMapEntry)
        sets == SelectSeq(PayloadInput, IsDatasetEntry)
        nonMaps == {i \in DOMAIN ops : ~IsMapOp(ops[i])}
    IN /\ Cardinality(nonMaps) <= 1
       /\ nonMaps \subseteq {Len(ops)}
       /\ \A i \in 1..Len(maps) :
            /\ i <= Len(ops) /\ IsMapOp(ops[i])
            /\ \A k \in DOMAIN maps[i].data.o : Get(ops[i], k) = maps[i].data.o[k]
       /\ Cardinality(DOMAIN ops \ nonMaps) = Len(maps)
       /\ nonMaps # {} =>
            /\ Len(PayloadDatasets) = Len(sets)
            /\ \A i \in 1..Len(sets) : BuiltFrom(PayloadDatasets[i], sets[i])

\* C12 witness: a cache of a dataset followed by two different maps came out
\* as the two maps and then the dataset
C12_Witness ==
  /\ payload.returned
  /\ Len(PayloadInput) = 3
  /\ IsDatasetEntry(PayloadInput[1]) /\ IsMapEntry(PayloadInput[2])
  /\ IsMapEntry(PayloadInput[3])
  /\ PayloadInput[2] # PayloadInput[3]
  /\ Len(payload.ops) = 3
  /\ IsMapOp(payload.ops[1]) /\ IsMapOp(payload.ops[2])
  /\ Len(PayloadDatasets) = 1


\* C13: the payload ends with a datasets operation only if the cache holds
\* at least one dataset entry that is not a map; for an empty cache or a
\* cache of keplergl entries only, the payload is the map operations alone
\* and is as long as the cache has keplergl entries.
C13_NoTrailingOpWithoutDatasets ==
  (payload.returned /\ \A i \in DOMAIN PayloadInput : IsMapEntry(PayloadInput[i]))
    => /\ Len(payload.ops) = Len(PayloadInput)
       /\ \A i \in DOMAIN payload.ops : IsMapOp(payload.ops[i])


\* C14: in the payload's datasets list every entry whose info had no id has
\* an id the generator returned, every entry whose info had an id has that
\* id, and no generated id equals the id of another dataset of the list,
\* generated or supplied.
C14_GeneratedIdsUnique ==
  payload.returned =>
    LET sets == SelectSeq(PayloadInput, IsDatasetEntry)
        ds == PayloadDatasets
        generated(i) == "id" \notin DOMAIN InfoOf(sets[i])
    IN /\ Len(ds) = Len(sets)
       /\ \A i \in 1..Len(sets) :
            IF generated(i)
            THEN \E n \in DOMAIN payload.hashes : ds[i].info.id = payload.hashes[n]
            ELSE ds[i].info.id = sets[i].info.id
       /\ \A i, j \in 1..Len(sets) :
            (i # j /\ generated(i)) => ds[i].info.id # ds[j].info.id


\* the i-th map operation of the payload carries the data of the i-th
\* keplergl entry of the cache key by key, and options on top of it
CarriesMapData(i) ==
  LET d == SelectSeq(PayloadInput, IsMapEntry)[i].data
      op == payload.ops[i]
  IN /\ DOMAIN op.o = DOMAIN d.o \cup {"options"}
     /\ \A k \in DOMAIN d.o \ {"options"} : op.o[k] = d.o[k]

\* the centerMap flag of the i-th map operation
CenterMapOf(i) == Get(payload.ops[i], "options")

\* C17 as claimed: every map operation carries its entry's datasets, config
\* and info unchanged plus options.centerMap, which is true iff the data has
\* no config property or that config has no mapState property, whatever
\* their non-null values, and false otherwise.
C17_CenterMapByPresence ==
  payload.returned =>
    \A i \in 1..Len(SelectSeq(PayloadInput, IsMapEntry)) :
      LET d == SelectSeq(PayloadInput, IsMapEntry)[i].data IN
      /\ CarriesMapData(i)
      /\ CenterMapOf(i) =
           Obj([centerMap |->
                  Bool(~(Present(d, "config")
                         /\ Present(Get(d, "config"), "mapState")))])

\* C17 amended: the same, with centerMap true iff the data's config is
\* missing or falsy or that config's mapState is missing or falsy.
C17_CenterMapByValue ==
  payload.returned =>
    \A i \in 1..Len(SelectSeq(PayloadInput, IsMapEntry)) :
      LET d == SelectSeq(PayloadInput, IsMapEntry)[i].data IN
      /\ CarriesMapData(i)
      /\ CenterMapOf(i) =
           Obj([centerMap |->
                  Bool(~(PresentTruthy(d, "config")
                         /\ PresentTruthy(Get(d, "config"), "mapState")))])

\* C17 witness: of two saved maps, the one without a config is centered and
\* the one whose config has a map state is not
C17_Witness ==
  /\ payload.returned
  /\ PayloadInput =
       <<[data |-> MapData(Undefined),
          info |-> [label |-> Name(<<"m">>, jsonSuffix), format |-> "keplergl"]],
         [data |-> MapData(Obj([mapState |-> Obj([zoom |-> Num(1)])])),
          info |-> [label |-> Name(<<"m">>, jsonSuffix), format |-> "keplergl"]]>>
  /\ CenterMapOf(1) = Obj([centerMap |-> Bool(TRUE)])
  /\ CenterMapOf(2) = Obj([centerMap |-> Bool(FALSE)])


----------------------------------------------------------------------------
(* Claims about readFile followed by filesToDataPayload, checked under Spec *)

IsPrefix(a, b) == Len(a) <= Len(b) /\ SubSeq(b, 1, Len(a)) = a

\* C20: no step of readFile or of filesToDataPayload changes the cache it
\* was given: the input cache of readFile stays as it was, the cache readFile
\* resolves with has the input cache as a prefix, and filesToDataPayload
\* leaves that cache and the info of its entries as they were, the
\* generated ids going to the payload only.
C20_CachesNeverMutated ==
  [][/\ fileCache' = fileCache
     /\ filePromise.state = "fulfilled" => filePromise' = filePromise
     /\ filePromise'.state = "fulfilled"
          => IsPrefix(fileCache', filePromise'.value)]_vars

\* C20 witness: readFile appended an entry to a cache of one entry, and
\* filesToDataPayload gave both datasets generated ids while the resolved
\* cache's entries still have none
C20_Witness ==
  /\ payload.returned
  /\ Len(payload.hashes) = 2
  /\ Len(fileCache) = 1
  /\ Len(filePromise.value) = 2
  /\ \A i \in 1..2 : "id" \notin DOMAIN filePromise.value[i].info
  /\ \A i \in 1..2 : PayloadDatasets[i].info.id = payload.hashes[i]


----------------------------------------------------------------------------
(* Several readFile calls at once: SpecUpload starts MaxUploads calls, each *)
(* on the accumulating cache as it stands when the call is made, and folds  *)
(* every resolved cache back into it                                        *)

\* how many files are ingested at once
MaxUploads == 2

UploadFiles ==
  {[name |-> Name(<<"a">>, csvSuffix), size |-> 1, text |-> <<"x">>,
    doc |-> Malformed, yields |-> TRUE],
   [name |-> Name(<<"e">>, csvSuffix), size |-> 0, text |-> <<>>,
    doc |-> Malformed, yields |-> TRUE],
   [name |-> Name(<<"b">>, jsonSuffix), size |-> SmallSize, text |-> <<"x">>,
    doc |-> FeatureDoc, yields |-> TRUE]}

\* what the file's handler resolves with once the file has been read
\* (lines 97-99 and 101-123)
HandlerResult(f) ==
  LET h == getFileHandler(f) IN
  IF h.handler = "loadCsv" THEN loadCsvThen(f.text, h.format, f.yields)
  ELSE loadJSONThen(f.doc, f.yields).result

\* the cache readFile's promise is fulfilled with (lines 50-63): the first
\* resolve call wins
ResolvedCache(cache, f, result) ==
  IF NoData(result) THEN cache ELSE Append(cache, NewEntry(f, result))

\* the cache the caller hands to a readFile call: the accumulating cache as
\* it stands when the call is made
CacheArgument == sharedCache

\* the caller's continuation of a readFile promise: the cache it resolved
\* with becomes the accumulating cache
Folded(resolved) == resolved

InitUpload ==
  /\ tasks \in [1..MaxUploads ->
                  {[file |-> f, pc |-> "notStarted", fileCache |-> <<>>,
                    promise |-> Pending] : f \in UploadFiles}]
  /\ sharedCache = <<>>
  /\ completed = <<>>
  /\ file = [name |-> <<>>, size |-> 0, text |-> <<>>, doc |-> Malformed,
             yields |-> FALSE]
  /\ fileCache = <<>>
  /\ pc = "none"
  /\ offset = 0
  /\ emitted = 0
  /\ asm = AssemblerInit
  /\ stream = NoBatches
  /\ readPromise = Pending
  /\ ingestPromise = Pending
  /\ thenPromise = Pending
  /\ filePromise = Pending
  /\ resolveCalls = 0
  /\ rejectCalls = 0
  /\ handlerCalls = 0
  /\ warnings = 0
  /\ thrown = 0
  /\ afterSettle = {}
  /\ readFailed = FALSE
  /\ filename = <<>>
  /\ fileType = ""
  /\ afterRoot = NoRoot
  /\ reads = NoReads
  /\ payload = NoPayload

\* readFile({file, fileCache}) is called for file i: the executor keeps the
\* cache it was given and starts the handler's read (lines 39-49)
UploadStart(i) ==
  /\ tasks[i].pc = "notStarted"
  /\ tasks' = [tasks EXCEPT ![i].pc = "reading",
                            ![i].fileCache = CacheArgument]
  /\ UNCHANGED <<sniffVars, taskVars, afterRoot, reads, payload, sharedCache,
                 completed>>

\* file i has been read: the handler's continuation, readFile's continuation
\* (lines 49-64) and the caller's continuation run one after the other
\* before any other file's read event is handled
UploadSettle(i) ==
  /\ tasks[i].pc = "reading"
  /\ LET t == tasks[i]
         resolved == ResolvedCache(t.fileCache, t.file, HandlerResult(t.file))
     IN /\ tasks' = [tasks EXCEPT ![i].pc = "settled",
                                  ![i].promise = Settle(@, Fulfilled(resolved))]
        /\ sharedCache' = Folded(resolved)
  /\ completed' = Append(completed, i)
  /\ UNCHANGED <<sniffVars, taskVars, afterRoot, reads, payload>>

\* the read of file i fails: neither readCSVFile (no onerror) nor readFile's
\* continuation (no rejection handler) settles readFile's promise
UploadReadFails(i) ==
  /\ tasks[i].pc = "reading"
  /\ tasks' = [tasks EXCEPT ![i].pc = "failed"]
  /\ UNCHANGED <<sniffVars, taskVars, afterRoot, reads, payload, sharedCache,
                 completed>>

NextUpload ==
  \E i \in 1..MaxUploads :
    \/ UploadStart(i)
    \/ UploadSettle(i)
    \/ UploadReadFails(i)

SpecUpload == InitUpload /\ [][NextUpload]_vars

\* file i was processed successfully: its handler's result has data
Successful(i) == ~NoData(HandlerResult(tasks[i].file))

\* C15: whatever the interleaving of the files' tasks, once every readFile
\* promise has settled the accumulating cache holds exactly one entry per
\* successfully processed file, in the order in which the promises were
\* resolved.
C15_AppendsSerialized ==
  (\A i \in 1..MaxUploads : tasks[i].pc = "settled") =>
    LET done == SelectSeq(completed, Successful)
    IN sharedCache =
         [k \in 1..Len(done) |->
            NewEntry(tasks[done[k]].file, HandlerResult(tasks[done[k]].file))]

====
